---- MODULE Spec2Model ----
(***************************************************************************)
(* Model of dicomorganizer.utils.parallel_tasks: one call of the batch     *)
(* runner, from entry to return, with the coordinator (the caller's        *)
(* process) and the worker processes of the ProcessPoolExecutor as         *)
(* interleaved steps.                                                      *)
(*                                                                         *)
(* Indices are 0-based as in the source: lists are functions on 0..n-1.    *)
(***************************************************************************)
EXTENDS Integers, FiniteSets, Sequences, TLC

\* Largest batch (len(arguments_list)) the model explores.
MaxTasks == 3
\* Largest requested num_workers the model explores.
MaxWorkers == 3
\* How far below zero the requested num_workers the model explores goes.
MaxNegativeWorkers == 1

\* Python's None: the value the result list is preallocated with.
None == "None"

\* The argument tuples a batch may hold.  The work function is deterministic:
\* its outcome depends on the argument tuple only.
Args == {"a", "b", "n", "x", "s", "k"}

\* The work function handed to parallel_tasks, by what a call of it does:
\*   "a" -> returns the value "A"
\*   "b" -> returns the value "B"
\*   "n" -> returns None (a successful call with no value)
\*   "x" -> raises an Exception
\*   "s" -> raises a BaseException that is not an Exception (SystemExit,
\*          KeyboardInterrupt, GeneratorExit)
\*   "k" -> the process running the call dies abnormally (no exception)
function(arg) ==
    CASE arg = "a" -> [kind |-> "return", value |-> "A"]
      [] arg = "b" -> [kind |-> "return", value |-> "B"]
      [] arg = "n" -> [kind |-> "return", value |-> None]
      [] arg = "x" -> [kind |-> "raise",  value |-> None]
      [] arg = "s" -> [kind |-> "exit",   value |-> None]
      [] arg = "k" -> [kind |-> "crash",  value |-> None]

Min(a, b) == IF a <= b THEN a ELSE b
Max(a, b) == IF a >= b THEN a ELSE b

VARIABLES
    arguments_list,       \* parameter: function 0..N-1 -> Args
    requested_workers,    \* parameter num_workers as passed by the caller
    force_single_thread,  \* parameter
    pc,                   \* coordinator position: "call", "bar", "pool",
                          \*   "unwind", "returned", "raised", "died"
    results_list,         \* local results_list
    num_workers,          \* local num_workers after line 27
    pbar,                 \* number of pbar.update(1) calls made so far
    pool,                 \* executor: "none", "open", "broken", "shutdown"
    task,                 \* per index: "new", "pending", "running",
                          \*   "returned", "raised", "exited", "crashed",
                          \*   "broken"
    collected,            \* indices whose loop body has run
    reordered,            \* some index was collected after a higher one
    \* --- DicomManager (dicom_manager.py) and its surroundings ---
    directory,            \* the files under self.directory, in os.walk order
    tags,                 \* self.tags
    group_by,             \* self.group_by
    self_num_workers,     \* self.num_workers
    df_dicom,             \* self._df_dicom
    scans,                \* number of walks of the directory made so far
    attempts,             \* per-file work of the latest anonymize_dicom call
    last,                 \* the latest operation: what was called, how it ended
    \* --- the command line program (apps/cli_app/main.py) ---
    cli_args,             \* the parsed arguments and what they name on disk
    output_path,          \* the output path on disk: "absent", "empty", "nonempty"
    cli_pc,               \* position of main
    exit_code,            \* exit status of the process once cli_pc = "exited"
    exited_at,            \* the position at which the process ended
    exit_cause,           \* "sys.exit" or the exception that ended the process
    batch_started         \* the catalog read or the anonymization has begun

\* State of one parallel_tasks call.
ptvars == <<arguments_list, requested_workers, force_single_thread, pc,
            results_list, num_workers, pbar, pool, task, collected, reordered>>

\* State of a DicomManager and of the files it works on.
mgrvars == <<directory, tags, group_by, self_num_workers, df_dicom, scans,
             attempts, last>>

\* State of one run of the command line program.
clivars == <<cli_args, output_path, cli_pc, exit_code, exited_at, exit_cause,
             batch_started>>

vars == <<ptvars, mgrvars, clivars>>

\* len(arguments_list)
N == Cardinality(DOMAIN arguments_list)
Indices == 0 .. (N - 1)

\* total_tasks = len(arguments_list): the target of the progress bar.
total_tasks == N

\* results_list = [None] * len(arguments_list)
InitialResultsPlaceholder(n) == [i \in 0 .. (n - 1) |-> ""]
InitialResults(n) == [i \in 0 .. (n - 1) |-> None]

\* num_workers = min(len(arguments_list), num_workers or 1)
\* (`w or 1` is 1 when w is 0, and w otherwise, negative values included)
EffectiveWorkers(n, w) == Min(n, IF w = 0 THEN 1 ELSE w)

\* ProcessPoolExecutor(max_workers=m) raises ValueError when m <= 0.
PoolRejects(m) == m <= 0

\* results_list[idx] = <value>
StoreResultShifted(res, idx, v) ==
    [res EXCEPT ![(idx + 1) % Cardinality(DOMAIN res)] = v]
StoreResult(res, idx, v) == [res EXCEPT ![idx] = v]

\* `except Exception`: which failed outcomes of a task the handler catches.
\* An Exception raised by the work function ("raised") and the
\* BrokenProcessPool set on the futures of a broken pool are Exceptions; a
\* BaseException that is not an Exception ("exited") is not caught.
Caught(outcome) == outcome \in {"raised", "crashed", "broken"}

\* pbar.update(1), placed after the try/except: runs for success and failure.
PbarUpdate(n, ok) == n + 1

\* States of a future that as_completed can yield.
Finished == {"returned", "raised", "exited", "crashed", "broken"}

\* Index of the next executor.submit of the dict comprehension.
NextSubmit == Cardinality({i \in Indices : task[i] # "new"})

Running == {i \in Indices : task[i] = "running"}

\* No DicomManager takes part in a bare parallel_tasks call.
NoManager ==
    /\ directory = << >>
    /\ tags = << >>
    /\ group_by = [given |-> FALSE, cols |-> << >>]
    /\ self_num_workers = [none |-> TRUE, n |-> 0]
    /\ df_dicom = [kind |-> "unset", columns |-> {}, rows |-> << >>]
    /\ scans = 0
    /\ attempts = << >>
    /\ last = [op |-> "none"]

\* No run of the command line program takes part.
NoProgram ==
    /\ cli_args = [input_exists |-> TRUE, drop_tags_exists |-> TRUE,
                   identifier_list_csv |-> "None", num_workers |-> 0]
    /\ output_path = "absent"
    /\ cli_pc = "none"
    /\ exit_code = 0
    /\ exited_at = "none"
    /\ exit_cause = "none"
    /\ batch_started = FALSE

Init ==
    /\ \E n \in 0 .. MaxTasks : arguments_list \in [0 .. (n - 1) -> Args]
    /\ requested_workers \in (0 - MaxNegativeWorkers) .. MaxWorkers
    /\ force_single_thread \in BOOLEAN
    /\ pc = "call"
    /\ results_list = << >>
    /\ num_workers = requested_workers
    /\ pbar = 0
    /\ pool = "none"
    /\ task = [i \in Indices |-> "new"]
    /\ collected = {}
    /\ reordered = FALSE
    /\ NoManager
    /\ NoProgram

\* Lines 23-29: preallocate the results, clamp the worker count, open the bar.
Prepare ==
    /\ pc = "call"
    /\ results_list' = InitialResults(N)
    /\ num_workers' = EffectiveWorkers(N, requested_workers)
    /\ pbar' = 0
    /\ pc' = "bar"
    /\ UNCHANGED <<mgrvars, clivars>>
    /\ UNCHANGED <<arguments_list, requested_workers, force_single_thread,
                   pool, task, collected, reordered>>

\* Lines 30-31: create the pool; the constructor raises on max_workers <= 0
\* and the exception leaves parallel_tasks.
OpenPool ==
    /\ pc = "bar"
    /\ ~force_single_thread
    /\ IF PoolRejects(num_workers)
         THEN /\ pc' = "raised"
              /\ pool' = pool
         ELSE /\ pc' = "pool"
              /\ pool' = "open"
    /\ UNCHANGED <<mgrvars, clivars>>
    /\ UNCHANGED <<arguments_list, requested_workers, force_single_thread,
                   results_list, num_workers, pbar, task, collected, reordered>>

\* Line 32: one executor.submit of the comprehension.  submit raises
\* BrokenProcessPool on a broken pool; the exception leaves the with blocks.
Submit ==
    /\ pc = "pool"
    /\ NextSubmit < N
    /\ IF pool = "broken"
         THEN /\ pc' = "raised"
              /\ pool' = "shutdown"
              /\ task' = task
         ELSE /\ task' = [task EXCEPT ![NextSubmit] = "pending"]
              /\ UNCHANGED <<pc, pool>>
    /\ UNCHANGED <<mgrvars, clivars>>
    /\ UNCHANGED <<arguments_list, requested_workers, force_single_thread,
                   results_list, num_workers, pbar, collected, reordered>>

\* A worker process takes the oldest pending call (the executor hands calls
\* out in submission order); at most max_workers run at once.
WorkerStart(i) ==
    /\ pc \in {"pool", "unwind"}
    /\ pool = "open"
    /\ task[i] = "pending"
    /\ \A j \in Indices : task[j] = "pending" => i <= j
    /\ Cardinality(Running) < num_workers
    /\ task' = [task EXCEPT ![i] = "running"]
    /\ UNCHANGED <<mgrvars, clivars>>
    /\ UNCHANGED <<arguments_list, requested_workers, force_single_thread, pc,
                   results_list, num_workers, pbar, pool, collected, reordered>>

\* The call returns in the worker: the value is set on the future.
WorkerReturn(i) ==
    /\ pc \in {"pool", "unwind"}
    /\ task[i] = "running"
    /\ function(arguments_list[i]).kind = "return"
    /\ task' = [task EXCEPT ![i] = "returned"]
    /\ UNCHANGED <<mgrvars, clivars>>
    /\ UNCHANGED <<arguments_list, requested_workers, force_single_thread, pc,
                   results_list, num_workers, pbar, pool, collected, reordered>>

\* The call raises in the worker: the worker catches every BaseException
\* and sets it on the future.
WorkerRaise(i) ==
    /\ pc \in {"pool", "unwind"}
    /\ task[i] = "running"
    /\ function(arguments_list[i]).kind \in {"raise", "exit"}
    /\ task' = [task EXCEPT ![i] =
                  IF function(arguments_list[i]).kind = "raise"
                    THEN "raised" ELSE "exited"]
    /\ UNCHANGED <<mgrvars, clivars>>
    /\ UNCHANGED <<arguments_list, requested_workers, force_single_thread, pc,
                   results_list, num_workers, pbar, pool, collected, reordered>>

\* The worker process dies: the executor marks the pool broken, terminates
\* the other workers and sets BrokenProcessPool on every unfinished future.
WorkerCrash(i) ==
    /\ pc \in {"pool", "unwind"}
    /\ task[i] = "running"
    /\ function(arguments_list[i]).kind = "crash"
    /\ task' = [j \in Indices |->
                  IF j = i THEN "crashed"
                  ELSE IF task[j] \in {"pending", "running"} THEN "broken"
                  ELSE task[j]]
    /\ pool' = "broken"
    /\ UNCHANGED <<mgrvars, clivars>>
    /\ UNCHANGED <<arguments_list, requested_workers, force_single_thread, pc,
                   results_list, num_workers, pbar, collected, reordered>>

\* Lines 34-41: one iteration of the as_completed loop, for a finished future
\* not yet yielded.  An exception the handler does not catch leaves the loop
\* and the with block of the executor, which first waits for its workers.
Collect(i) ==
    /\ pc = "pool"
    /\ NextSubmit = N
    /\ i \notin collected
    /\ task[i] \in Finished
    /\ IF task[i] = "returned"
         THEN /\ results_list' =
                    StoreResult(results_list, i, function(arguments_list[i]).value)
              /\ pc' = pc
         ELSE /\ results_list' = results_list
              /\ pc' = IF Caught(task[i]) THEN pc ELSE "unwind"
    /\ pbar' = IF task[i] = "returned" \/ Caught(task[i])
                 THEN PbarUpdate(pbar, task[i] = "returned")
                 ELSE pbar
    /\ collected' = collected \cup {i}
    /\ reordered' = (reordered \/ \E j \in collected : j > i)
    /\ UNCHANGED <<mgrvars, clivars>>
    /\ UNCHANGED <<arguments_list, requested_workers, force_single_thread,
                   num_workers, pool, task>>

\* Line 31, leaving on an exception: the executor's __exit__ is
\* shutdown(wait=True); the calls already submitted run to their end (or
\* are failed by a broken pool), then the exception reaches the caller.
PoolUnwind ==
    /\ pc = "unwind"
    /\ \A i \in Indices : task[i] \notin {"pending", "running"}
    /\ pool' = "shutdown"
    /\ pc' = "raised"
    /\ UNCHANGED <<mgrvars, clivars>>
    /\ UNCHANGED <<arguments_list, requested_workers, force_single_thread,
                   results_list, num_workers, pbar, task, collected, reordered>>

\* Lines 41-51: as_completed is exhausted, the executor shuts down (waiting
\* for its workers), the bar closes and results_list is returned.
PoolReturn ==
    /\ pc = "pool"
    /\ NextSubmit = N
    /\ collected = Indices
    /\ pool' = "shutdown"
    /\ pc' = "returned"
    /\ UNCHANGED <<mgrvars, clivars>>
    /\ UNCHANGED <<arguments_list, requested_workers, force_single_thread,
                   results_list, num_workers, pbar, task, collected, reordered>>

\* Lines 43-49: one iteration of the sequential loop; the call runs in the
\* coordinator's own process, so a dying call takes the coordinator with it.
SequentialStep ==
    /\ pc = "bar"
    /\ force_single_thread
    /\ Cardinality(collected) < N
    /\ LET idx == Cardinality(collected)
           out == function(arguments_list[idx])
       IN  CASE out.kind = "return" ->
                  /\ task' = [task EXCEPT ![idx] = "returned"]
                  /\ results_list' = StoreResult(results_list, idx, out.value)
                  /\ pbar' = PbarUpdate(pbar, TRUE)
                  /\ collected' = collected \cup {idx}
                  /\ pc' = pc
             [] out.kind \in {"raise", "exit"} ->
                  LET outcome == IF out.kind = "raise" THEN "raised"
                                                       ELSE "exited"
                  IN  /\ task' = [task EXCEPT ![idx] = outcome]
                      /\ results_list' = results_list
                      /\ pbar' = IF Caught(outcome) THEN PbarUpdate(pbar, FALSE)
                                                    ELSE pbar
                      /\ collected' = collected \cup {idx}
                      /\ pc' = IF Caught(outcome) THEN pc ELSE "raised"
             [] out.kind = "crash" ->
                  /\ task' = [task EXCEPT ![idx] = "crashed"]
                  /\ pc' = "died"
                  /\ UNCHANGED <<results_list, pbar, collected>>
    /\ UNCHANGED <<mgrvars, clivars>>
    /\ UNCHANGED <<arguments_list, requested_workers, force_single_thread,
                   num_workers, pool, reordered>>

\* Lines 43, 51: the sequential loop is exhausted and results_list is returned.
SequentialReturn ==
    /\ pc = "bar"
    /\ force_single_thread
    /\ Cardinality(collected) = N
    /\ pc' = "returned"
    /\ UNCHANGED <<mgrvars, clivars>>
    /\ UNCHANGED <<arguments_list, requested_workers, force_single_thread,
                   results_list, num_workers, pbar, pool, task, collected,
                   reordered>>

Next ==
    \/ Prepare
    \/ OpenPool
    \/ Submit
    \/ \E i \in Indices : WorkerStart(i)
    \/ \E i \in Indices : WorkerReturn(i)
    \/ \E i \in Indices : WorkerRaise(i)
    \/ \E i \in Indices : WorkerCrash(i)
    \/ \E i \in Indices : Collect(i)
    \/ PoolUnwind
    \/ PoolReturn
    \/ SequentialStep
    \/ SequentialReturn

Spec == Init /\ [][Next]_vars

\* The call is over: it returned, raised to its caller, or its process died.
Terminated == pc \in {"returned", "raised", "died"}

TypeOK ==
    /\ pc \in {"call", "bar", "pool", "unwind", "returned", "raised", "died"}
    /\ pool \in {"none", "open", "broken", "shutdown"}
    /\ N <= MaxTasks
    /\ \A i \in Indices : task[i] \in
          {"new", "pending", "running", "returned", "raised", "exited",
           "crashed", "broken"}
    /\ collected \subseteq Indices
    /\ pbar \in 0 .. MaxTasks

\* What the sequential loop (lines 43-51) makes of a whole argument list:
\* how the call ends and, when it returns, the list it returns.
RECURSIVE SequentialLoop(_, _, _)
SequentialLoop(args, idx, res) ==
    IF idx = Cardinality(DOMAIN args)
      THEN [status |-> "returned", results |-> res]
      ELSE LET out == function(args[idx])
           IN  CASE out.kind = "return" ->
                      SequentialLoop(args, idx + 1, StoreResult(res, idx, out.value))
                 [] out.kind \in {"raise", "exit"} ->
                      IF Caught(IF out.kind = "raise" THEN "raised" ELSE "exited")
                        THEN SequentialLoop(args, idx + 1, res)
                        ELSE [status |-> "raised", results |-> << >>]
                 [] out.kind = "crash" ->
                      [status |-> "died", results |-> << >>]

SequentialRun(args) ==
    LET r == SequentialLoop(args, 0, InitialResults(Cardinality(DOMAIN args)))
    IN  IF r.status = "returned" THEN r ELSE [r EXCEPT !.results = << >>]

\* What the caller observes of the finished call.
Outcome ==
    [status |-> pc, results |-> IF pc = "returned" THEN results_list ELSE << >>]

\* The stepwise sequential path and SequentialRun agree on every input.
SequentialRunAgrees ==
    (force_single_thread /\ Terminated) => Outcome = SequentialRun(arguments_list)

\* Task i ended without a result of its own: its call raised, its worker
\* died, or its future was failed by the broken pool.
Failed(i) == task[i] \in {"raised", "exited", "crashed", "broken"}

\* No argument tuple of the batch makes its process die.
NoCrashInput == \A i \in Indices : function(arguments_list[i]).kind # "crash"

\* No argument tuple of the batch makes its call raise a BaseException that
\* is not an Exception.
NoExitInput == \A i \in Indices : function(arguments_list[i]).kind # "exit"

(***************************************************************************)
(* C1: for every completion order and worker count, when parallel_tasks    *)
(* returns, every index whose call returned a value holds exactly that     *)
(* value; and at every moment a slot that holds a value holds the value    *)
(* returned by its own task's call, never another task's.                  *)
(***************************************************************************)
C1_ResultInOwnSlot ==
    /\ pc = "returned" =>
         \A i \in Indices :
            task[i] = "returned" =>
               results_list[i] = function(arguments_list[i]).value
    /\ pc # "call" =>
         \A i \in Indices :
            results_list[i] # None =>
               /\ task[i] = "returned"
               /\ results_list[i] = function(arguments_list[i]).value

\* A pool run with at least two workers that returned two different values
\* after collecting them out of submission order.
C1_Witness ==
    /\ pc = "returned"
    /\ ~force_single_thread
    /\ num_workers >= 2
    /\ reordered
    /\ \E i, j \in Indices :
          /\ i < j
          /\ results_list[i] = "A"
          /\ results_list[j] = "B"

(***************************************************************************)
(* C2 (as claimed): in both paths, when the call of exactly one index i    *)
(* failed by raising (whatever it raised) and no other task failed,        *)
(* parallel_tasks returns to its caller (it neither raises nor dies), slot *)
(* i holds None, and every other index holds the value its own call        *)
(* returned.                                                               *)
(***************************************************************************)
C2_FailureIsolated ==
    \A i \in Indices :
       ( /\ Terminated
         /\ task[i] \in {"raised", "exited"}
         /\ \A j \in Indices \ {i} : ~Failed(j) )
       =>
       ( /\ pc = "returned"
         /\ results_list[i] = None
         /\ \A j \in Indices \ {i} :
               /\ task[j] = "returned"
               /\ results_list[j] = function(arguments_list[j]).value )

(***************************************************************************)
(* C3 (as claimed): for every N >= 0 and every requested worker count      *)
(* >= 1, in both modes, parallel_tasks returns a list of exactly N         *)
(* entries.  Stated for batches in which no call kills its process or      *)
(* raises a BaseException that is not an Exception.                        *)
(***************************************************************************)
C3_ReturnsLengthN ==
    (Terminated /\ requested_workers >= 1 /\ NoCrashInput /\ NoExitInput) =>
       /\ pc = "returned"
       /\ Cardinality(DOMAIN results_list) = N

(***************************************************************************)
(* C4 (as claimed): the worker count given to the pool is                  *)
(* max(1, min(worker_count, N)), so the pool is never asked for zero or    *)
(* negative concurrency.                                                   *)
(***************************************************************************)
C4_EffectiveWorkerCount ==
    (pc # "call" /\ ~force_single_thread) =>
       /\ num_workers = Max(1, Min(requested_workers, N))
       /\ num_workers >= 1

(***************************************************************************)
(* C5 (as claimed): with an empty argument list parallel_tasks returns an  *)
(* empty list, without failing and without creating a pool, whatever the   *)
(* worker count and the mode.                                              *)
(***************************************************************************)
C5_EmptyBatchReturnsEmpty ==
    (N = 0) =>
       /\ pool = "none"
       /\ Terminated => (pc = "returned" /\ results_list = << >>)

(***************************************************************************)
(* C6 (as claimed): on the same argument list the pool path ends as the    *)
(* sequential path does, with the same returned list, for every worker     *)
(* count and completion order.  Stated for batches in which no call kills  *)
(* its process.                                                            *)
(***************************************************************************)
C6_ModesAgree ==
    (~force_single_thread /\ Terminated /\ NoCrashInput) =>
       Outcome = SequentialRun(arguments_list)

(***************************************************************************)
(* C7 (as claimed): when parallel_tasks returns, every task of the batch   *)
(* has run to its own end (its call returned, raised, or killed its own    *)
(* worker); none was left unrun or failed on account of another task.      *)
(***************************************************************************)
C7_AllTasksRunToCompletion ==
    pc = "returned" =>
       \A i \in Indices : task[i] \in {"returned", "raised", "crashed"}

(***************************************************************************)
(* C8 (as claimed): in a pool run in which the worker of one task died,    *)
(* parallel_tasks still returns normally and every task whose call returns *)
(* a value still runs and has that value in its slot.                      *)
(***************************************************************************)
C8_CrashIsolated ==
    ( /\ ~force_single_thread
      /\ Terminated
      /\ \E i \in Indices : task[i] = "crashed" )
    =>
    ( /\ pc = "returned"
      /\ \A j \in Indices :
            function(arguments_list[j]).kind = "return" =>
               /\ task[j] = "returned"
               /\ results_list[j] = function(arguments_list[j]).value )

(***************************************************************************)
(* C9 (as claimed): in both modes the progress counter starts at 0, every  *)
(* step leaves it unchanged or adds exactly one, it advances exactly when  *)
(* one more task (returned or failed) has been handled, it never exceeds   *)
(* N, and it equals N when parallel_tasks returns.                         *)
(***************************************************************************)
C9_ProgressCounter ==
    [][ /\ pbar' \in {pbar, pbar + 1}
        /\ (pbar' = pbar + 1) <=> (collected' # collected)
        /\ Cardinality(collected' \ collected) <= 1
        /\ pbar' = Cardinality(collected')
        /\ pbar' <= total_tasks
        /\ (pc' = "returned") => (pbar' = total_tasks) ]_vars

(***************************************************************************)
(* C10 (as claimed): in the returned list slot i holds None if and only if *)
(* task i failed, so a call that returns None is not reported as absent.   *)
(***************************************************************************)
C10_AbsentIffFailed ==
    pc = "returned" =>
       \A i \in Indices : (results_list[i] = None) <=> Failed(i)

(***************************************************************************)
(* C10 (amended): in the returned list slot i holds None if and only if    *)
(* task i failed or its call returned None; a slot that holds another      *)
(* value always belongs to a task that succeeded.                          *)
(***************************************************************************)
C10_AbsentIffFailedOrNone ==
    pc = "returned" =>
       \A i \in Indices :
          (results_list[i] = None) <=>
             \/ Failed(i)
             \/ (task[i] = "returned" /\ function(arguments_list[i]).value = None)

\* A returned list in which the None of a call that raised and the None of a
\* call that returned None stand side by side with a real value.
C10_Witness ==
    /\ pc = "returned"
    /\ \E i, j, k \in Indices :
          /\ task[i] = "raised" /\ results_list[i] = None
          /\ task[j] = "returned" /\ arguments_list[j] = "n"
          /\ results_list[j] = None
          /\ results_list[k] = "A"

(***************************************************************************)
(* DicomManager (dicom_manager.py): a manager over a directory of files,   *)
(* its lazily built catalog, filter and anonymize_dicom.  Each public      *)
(* operation is one step.  Python lists are sequences here; they are       *)
(* turned into 0-based lists where they are handed to parallel_tasks.      *)
(***************************************************************************)

\* Largest number of files in the directory.
MaxFiles == 2
\* Largest number of walks of the directory one manager makes.
MaxScans == 2
\* Largest self.num_workers / num_workers argument given to the manager.
MaxManagerWorkers == 1

DEFAULT_DICOM_TAGS ==
    << "PatientName", "PatientID", "StudyID", "StudyDate",
       "SOPInstanceUID", "SeriesInstanceUID", "Modality",
       "BurnedInAnnotation", "SOPClassUID", "StudyInstanceUID" >>

CLEAR_TAGS ==
    << "PatientBirthDate", "PatientAge", "InstitutionName",
       "StationName", "StudyID", "AccessionNumber",
       "SeriesDescription", "StudyDescription" >>

ToSet(seq) == {seq[i] : i \in 1 .. Len(seq)}

\* A Python list as the 0-based list parallel_tasks works on, and back.
ToList(seq) == [i \in 0 .. (Len(seq) - 1) |-> seq[i + 1]]
ToSeq(list) == [i \in 1 .. Cardinality(DOMAIN list) |-> list[i - 1]]

\* The kinds of file a directory may hold:
\*   "US", "CT"  a DICOM file of that modality
\*   "bad"       a file that is not DICOM (dcmread: InvalidDicomError)
\*   "err"       a file whose read fails otherwise (dcmread: another error)
\*   "DICOMDIR"  the index file named DICOMDIR
FileKinds == {"US", "CT", "bad", "err", "DICOMDIR"}

\* The data set of a DICOM file, by kind: the fields it carries.
FileRecord(kind) ==
    IF kind = "US"
      THEN [PatientName |-> "Doe", Modality |-> "US"]
      ELSE [PatientName |-> "Roe", StudyID |-> "S1", Modality |-> "CT",
            StudyDescription |-> "chest"]

\* os.path.join(root, file): the path of the file at a position.
PathNames == << "f1", "f2", "f3", "f4", "f5" >>
PathOf(i) == PathNames[i]
FileAt(dir, path) ==
    IF \E i \in 1 .. Len(dir) : PathOf(i) = path
      THEN dir[CHOOSE i \in 1 .. Len(dir) : PathOf(i) = path]
      ELSE "missing"

\* A missing cell of a table (pandas NaN).
NaN == "NaN"

\* The ways the work of a batch may be run: sequentially (num_workers is
\* None) or by parallel_tasks with a worker count.
WorkerSettings ==
    {[none |-> TRUE, n |-> 0]} \cup
    {[none |-> FALSE, n |-> k] :
        k \in (0 - MaxNegativeWorkers) .. MaxManagerWorkers}

\* parallel_tasks as a function of what each call does (no call kills its
\* process): outs is the 0-based list of call outcomes.
RunBatch(outs, w, force) ==
    LET n == Cardinality(DOMAIN outs)
        filled == [i \in 0 .. (n - 1) |->
                     IF outs[i].kind = "return" THEN outs[i].value ELSE None]
    IN  IF ~force /\ PoolRejects(EffectiveWorkers(n, w))
          THEN [status |-> "raised", results |-> << >>]
        ELSE IF \E i \in 0 .. (n - 1) : outs[i].kind = "exit"
          THEN [status |-> "raised", results |-> << >>]
          ELSE [status |-> "returned", results |-> filled]

\* The stepwise model of parallel_tasks and RunBatch agree.
RunBatchAgrees ==
    (Terminated /\ NoCrashInput /\ pc # "call") =>
       Outcome = RunBatch([i \in Indices |-> function(arguments_list[i])],
                          requested_workers, force_single_thread)

\* _get_dicom_file_paths: every file of the walk except DICOMDIR.
GetDicomFilePaths(dir) ==
    LET keep == {i \in 1 .. Len(dir) : dir[i] # "DICOMDIR"}
        RECURSIVE Build(_)
        Build(k) == IF k > Len(dir) THEN << >>
                    ELSE IF k \in keep THEN <<PathOf(k)>> \o Build(k + 1)
                    ELSE Build(k + 1)
    IN  Build(1)

\* _get_single_dicom_info: None for a file that is not DICOM, an error
\* dictionary for another read failure, else the requested fields (None for
\* a field the file lacks) plus the filename.
GetSingleDicomInfo(dir, filepath, tgs) ==
    LET kind == FileAt(dir, filepath)
    IN  IF kind = "bad" THEN [t |-> "None"]
        ELSE IF kind = "err"
          THEN [t |-> "dict", cells |-> [error |-> "read failed"]]
          ELSE LET rec == FileRecord(kind)
               IN  [t |-> "dict",
                    cells |-> [c \in ToSet(tgs) \cup {"filename"} |->
                                 IF c = "filename" THEN filepath
                                 ELSE IF c \in DOMAIN rec THEN rec[c]
                                 ELSE None]]

\* _get_dicom_info_parallel: the list handed to pd.DataFrame.  The
\* sequential path returns every result; the parallel path drops the Nones.
GetDicomInfoParallel(dir, tgs, workers) ==
    LET paths == GetDicomFilePaths(dir)
        infos == [i \in 1 .. Len(paths) |-> GetSingleDicomInfo(dir, paths[i], tgs)]
        notNone(r) == r.t # "None"
    IN  IF workers.none
          THEN [status |-> "ok", error |-> "", list |-> infos]
          ELSE LET r == RunBatch(
                          ToList([i \in 1 .. Len(infos) |->
                                    [kind |-> "return", value |-> infos[i]]]),
                          workers.n, FALSE)
               IN  IF r.status = "raised"
                     THEN [status |-> "raised", error |-> "ValueError(max_workers)",
                           list |-> << >>]
                     ELSE [status |-> "ok", error |-> "",
                           list |-> SelectSeq(ToSeq(r.results), notNone)]

\* pd.DataFrame(list): one row per dictionary, the columns being the keys of
\* all of them and NaN filling the gaps.  A None after a leading dictionary
\* makes the constructor fail (None has no keys); a leading None makes the
\* list a single column "0" of objects, one row per entry.
DataFrame(list) ==
    LET hasNone == \E i \in 1 .. Len(list) : list[i].t = "None"
    IN  IF list = << >>
          THEN [status |-> "ok", error |-> "", columns |-> {}, rows |-> << >>]
        ELSE IF list[1].t = "None"
          THEN [status |-> "ok", error |-> "", columns |-> {"0"},
                rows |-> [i \in 1 .. Len(list) |-> [c \in {"0"} |-> list[i].t]]]
        ELSE IF hasNone
          THEN [status |-> "raised", error |-> "AttributeError",
                columns |-> {}, rows |-> << >>]
        ELSE LET cols == UNION {DOMAIN list[i].cells : i \in 1 .. Len(list)}
             IN  [status |-> "ok", error |-> "", columns |-> cols,
                  rows |-> [i \in 1 .. Len(list) |->
                              [c \in cols |->
                                 IF c \in DOMAIN list[i].cells
                                   THEN list[i].cells[c] ELSE NaN]]]

\* The catalog before it is built: self._df_dicom = None.
Unset == [kind |-> "unset", columns |-> {}, rows |-> << >>]

\* all(col_check): every group_by column is a column of the table.
GroupByColumnsPresentAny(cols, columns) ==
    \E i \in 1 .. Len(cols) : cols[i] \in columns
GroupByColumnsPresent(cols, columns) ==
    \A i \in 1 .. Len(cols) : cols[i] \in columns

\* _get_dicom_info: build the table and group it when group_by is given.
GetDicomInfo(dir, tgs, gb, workers) ==
    LET got == GetDicomInfoParallel(dir, tgs, workers)
        df  == DataFrame(got.list)
    IN  IF got.status = "raised"
          THEN [status |-> "raised", error |-> got.error, catalog |-> Unset]
        ELSE IF df.status = "raised"
          THEN [status |-> "raised", error |-> df.error, catalog |-> Unset]
        ELSE IF gb.given
          THEN IF GroupByColumnsPresent(gb.cols, df.columns)
                 THEN [status |-> "ok", error |-> "",
                       catalog |-> [kind |-> "grouped", columns |-> df.columns,
                                    rows |-> df.rows]]
                 ELSE [status |-> "raised", error |-> "ValueError(group_by)",
                       catalog |-> Unset]
          ELSE [status |-> "ok", error |-> "",
                catalog |-> [kind |-> "flat", columns |-> df.columns,
                             rows |-> df.rows]]

\* `if self._df_dicom is None`: the catalog has to be built.
NeedsBuildWhenEmpty(df) == df.kind = "unset" \/ df.rows = << >>
NeedsBuild(df) == df.kind = "unset"

\* The df_dicom property: build and store the catalog when it is unset,
\* then hand out the stored one.  `scanned` tells whether the directory was
\* walked; a failed build stores nothing.
DfDicom(df, dir, tgs, gb, workers) ==
    IF NeedsBuild(df)
      THEN LET b == GetDicomInfo(dir, tgs, gb, workers)
           IN  [status |-> b.status, error |-> b.error, scanned |-> 1,
                stored |-> IF b.status = "ok" THEN b.catalog ELSE df]
      ELSE [status |-> "ok", error |-> "", scanned |-> 0, stored |-> df]

\* The row functions the model passes to filter, and a value that is not
\* callable.
FilterFuncs == {"is_US", "is_CT", "always"}
NotCallable == "not callable"

\* The columns a row function reads.
Reads(f) == IF f = "always" THEN {} ELSE {"Modality"}

\* filter_func(row)
Apply(f, row) ==
    CASE f = "is_US"  -> row["Modality"] = "US"
      [] f = "is_CT"  -> row["Modality"] = "CT"
      [] f = "always" -> TRUE

\* `... if self.group_by else ...`: the truth value of self.group_by.
TruthyNever(gb) == FALSE
Truthy(gb) == gb.given /\ gb.cols # << >>

\* The places an output_directory argument may name: the manager's own
\* directory, another existing directory, an existing regular file, and a
\* path at which nothing exists.
SelfDirectory == "in"
OutputLocations == {SelfDirectory, "out_dir", "out_file", "missing"}
PathExists(path) == path # "missing"
IsDirectory(path) == path \in {SelfDirectory, "out_dir"}

\* The clear_tags arguments: << >> stands for None or an empty list.
ClearTagChoices == { << >>, <<"PatientName", "PatientAge">> }

\* `clear_tags or self.CLEAR_TAGS`
EffectiveClearTags(clear) == IF clear = << >> THEN CLEAR_TAGS ELSE clear

\* Lines 271-273: every named field the data set carries gets the value "".
ClearAddsMissing(rec, clear) ==
    [c \in DOMAIN rec \cup ToSet(clear) |->
        IF c \in ToSet(clear) THEN "" ELSE rec[c]]
Clear(rec, clear) ==
    [c \in DOMAIN rec |-> IF c \in ToSet(clear) THEN "" ELSE rec[c]]

\* The two assertions at the head of anonymize_dicom.
OutputAcceptedIfExists(out, dir) == PathExists(out)
OutputAccepted(out, dir) == PathExists(out) /\ out # dir

\* _anonymize_single_dicom: read, clear, save to output_path, which is
\* output_directory itself; any exception is caught and None returned.
\* `done` records what the call did to the file.
AnonymizeSingleDicomUncaught(dir, dicom_path, clear, out) ==
    LET kind   == FileAt(dir, dicom_path)
        readOk == kind \in {"US", "CT"}
        saveOk == readOk /\ ~IsDirectory(out)
        data   == IF readOk THEN Clear(FileRecord(kind), clear)
                            ELSE [c \in {} |-> ""]
    IN  [kind  |-> IF saveOk THEN "return" ELSE "raise",
         value |-> IF saveOk THEN out ELSE None,
         done  |-> [src |-> dicom_path, read |-> readOk, target |-> out,
                    saved |-> saveOk, data |-> data]]
AnonymizeSingleDicom(dir, dicom_path, clear, out) ==
    LET kind   == FileAt(dir, dicom_path)
        readOk == kind \in {"US", "CT"}
        saveOk == readOk /\ ~IsDirectory(out)
        data   == IF readOk THEN Clear(FileRecord(kind), clear)
                            ELSE [c \in {} |-> ""]
    IN  [kind  |-> "return",
         value |-> IF saveOk THEN out ELSE None,
         done  |-> [src |-> dicom_path, read |-> readOk, target |-> out,
                    saved |-> saveOk, data |-> data]]

\* Lines 150-153: the sequential loop over args_list, keeping the truthy
\* results; an exception leaving a call ends the loop and anonymize_dicom.
RECURSIVE AnonymizeLoop(_, _, _, _, _, _, _)
AnonymizeLoop(dir, paths, clear, out, k, files, done) ==
    IF k > Len(paths)
      THEN [status |-> "returned", error |-> "", result |-> files,
            attempts |-> done]
      ELSE LET r == AnonymizeSingleDicom(dir, paths[k], clear, out)
           IN  IF r.kind = "raise"
                 THEN [status |-> "raised", error |-> "Exception",
                       result |-> << >>, attempts |-> Append(done, r.done)]
                 ELSE AnonymizeLoop(dir, paths, clear, out, k + 1,
                                    IF r.value # None /\ r.value # ""
                                      THEN Append(files, r.value) ELSE files,
                                    Append(done, r.done))

\* Lines 155-157: the same work through parallel_tasks, keeping the results
\* that are not None.
AnonymizeParallel(dir, paths, clear, out, w) ==
    LET rs == [k \in 1 .. Len(paths) |->
                 AnonymizeSingleDicom(dir, paths[k], clear, out)]
        b  == RunBatch(ToList([k \in 1 .. Len(paths) |->
                                 [kind |-> rs[k].kind, value |-> rs[k].value]]),
                       w, FALSE)
        notNone(v) == v # None
    IN  IF b.status = "raised"
          THEN [status |-> "raised", error |-> "ValueError(max_workers)",
                result |-> << >>, attempts |-> << >>]
          ELSE [status |-> "returned", error |-> "",
                result |-> SelectSeq(ToSeq(b.results), notNone),
                attempts |-> [k \in 1 .. Len(paths) |-> rs[k].done]]

\* Lines 142-159 of anonymize_dicom on a catalog: df['filename'].tolist()
\* (a grouped catalog has no tolist, a table without the column raises
\* KeyError), then the sequential loop or parallel_tasks.
AnonymizeCatalog(dir, cat, clear, out, workers) ==
    IF cat.kind = "grouped"
      THEN [status |-> "raised", error |-> "AttributeError",
            result |-> << >>, attempts |-> << >>]
    ELSE IF "filename" \notin cat.columns
      THEN [status |-> "raised", error |-> "KeyError",
            result |-> << >>, attempts |-> << >>]
    ELSE LET paths == [k \in 1 .. Len(cat.rows) |-> cat.rows[k]["filename"]]
         IN  IF workers.none
               THEN AnonymizeLoop(dir, paths, clear, out, 1, << >>, << >>)
               ELSE AnonymizeParallel(dir, paths, clear, out, workers.n)

\* anonymize_dicom leaves the manager as a read of df_dicom leaves it, so
\* a behaviour is followed up to its first anonymize_dicom call: every state
\* of the manager a later call could start from is also reached without one.
Open == last.op # "anonymize_dicom"

\* A manager as its constructor leaves it.  No batch runs stepwise here.
NoBatch ==
    /\ arguments_list = << >>
    /\ requested_workers = 1
    /\ force_single_thread = FALSE
    /\ pc = "none"
    /\ results_list = << >>
    /\ num_workers = 1
    /\ pbar = 0
    /\ pool = "none"
    /\ task = << >>
    /\ collected = {}
    /\ reordered = FALSE

\* The tags arguments: << >> stands for None (or an empty list).
TagChoices == { << >>, <<"PatientName", "PatientID", "SeriesDescription">> }

GroupByChoices ==
    { [given |-> FALSE, cols |-> << >>],
      [given |-> TRUE,  cols |-> <<"Modality">>],
      [given |-> TRUE,  cols |-> <<"PatientName", "Missing">>] }

\* Lines 65-71: DicomManager.__init__.  The manager's own num_workers is None
\* or a count from 0 up; negative counts are given to anonymize_dicom.
InitManager ==
    /\ NoBatch
    /\ NoProgram
    /\ \E n \in 0 .. MaxFiles : directory \in [1 .. n -> FileKinds]
    /\ \E t \in TagChoices :
          tags = IF t = << >> THEN DEFAULT_DICOM_TAGS ELSE t
    /\ group_by \in GroupByChoices
    /\ self_num_workers \in {w \in WorkerSettings : w.n >= 0}
    /\ df_dicom = Unset
    /\ scans = 0
    /\ attempts = << >>
    /\ last = [op |-> "init"]

\* Lines 76-88: a read of the df_dicom property.
GetDfDicom ==
    /\ Open
    /\ scans < MaxScans
    /\ \E a \in {DfDicom(df_dicom, directory, tags, group_by, self_num_workers)} :
           /\ df_dicom' = a.stored
           /\ scans' = scans + a.scanned
           /\ last' = [op |-> "df_dicom", status |-> IF a.status = "ok" THEN "returned" ELSE "raised",
                       error |-> a.error, before |-> df_dicom,
                       scanned |-> a.scanned]
    /\ attempts' = << >>
    /\ UNCHANGED <<directory, tags, group_by, self_num_workers>>
    /\ UNCHANGED <<ptvars, clivars>>

\* The mutated assignment: the filtered table is stored only when inplace
\* is true.
FilterStoresInplaceOnly(inplace) == inplace

\* Line 117: the assignment to self._df_dicom is under no condition, so the
\* filtered table is stored for every value of inplace.
FilterStores(inplace) == TRUE

\* Line 115, the columns of df[df.apply(filter_func, axis=1)].  On a table
\* with rows the mask is boolean and every column is kept.  On a table
\* without rows pandas calls filter_func once on a probe row: when the call
\* returns, apply gives an empty non-boolean Series and indexing with it
\* selects no column; when the call raises, the exception is dropped and
\* every column is kept.  The probe row has the table's columns from pandas
\* 1.1 on and no column in pandas 1.0 (setup.py asks for pandas>=1.0.0), so
\* a function that reads a column of the table raises on one and returns
\* on the other: both results are allowed.
FilteredColumns(f, df) ==
    IF df.rows # << >> THEN {df.columns}
    ELSE IF Reads(f) = {} THEN {{}}
    ELSE IF Reads(f) \subseteq df.columns THEN {df.columns, {}}
    ELSE {df.columns}

\* Lines 91-118: filter(filter_func, inplace).  Regrouping the filtered
\* table (line 117) raises KeyError when a group_by column is not among its
\* columns; the stored catalog is then the one from before the call.
\* No statement of filter reads inplace: the step is the same for both values.
\* The value returned (line 118) is the catalog just stored.
Filter(f, inplace) ==
    /\ Open
    /\ scans < MaxScans
    /\ IF f = NotCallable
         THEN /\ last' = [op |-> "filter", status |-> "raised",
                          error |-> "ValueError(callable)", before |-> df_dicom,
                          scanned |-> 0, func |-> f]
              /\ UNCHANGED <<df_dicom, scans>>
         ELSE \E a \in {DfDicom(df_dicom, directory, tags, group_by, self_num_workers)} :
              LET df == a.stored
                  keep(row) == Apply(f, row)
              IN  /\ scans' = scans + a.scanned
                  /\ IF a.status # "ok"
                       THEN /\ df_dicom' = a.stored
                            /\ last' = [op |-> "filter", status |-> "raised",
                                        error |-> a.error, before |-> df_dicom,
                                        scanned |-> a.scanned,
                                        func |-> f]
                     ELSE IF df.rows # << >> /\ ~(Reads(f) \subseteq df.columns)
                       THEN /\ df_dicom' = a.stored
                            /\ last' = [op |-> "filter", status |-> "raised",
                                        error |-> "KeyError", before |-> df_dicom,
                                        scanned |-> a.scanned,
                                        func |-> f]
                     ELSE \E cols \in FilteredColumns(f, df) :
                          IF Truthy(group_by) /\ ~(ToSet(group_by.cols) \subseteq cols)
                            THEN /\ df_dicom' = a.stored
                                 /\ last' = [op |-> "filter", status |-> "raised",
                                             error |-> "KeyError(group_by)",
                                             before |-> df_dicom,
                                             scanned |-> a.scanned,
                                             func |-> f]
                            ELSE /\ df_dicom' =
                                       IF FilterStores(inplace)
                                         THEN [kind |-> IF Truthy(group_by) THEN "grouped" ELSE "flat",
                                               columns |-> cols,
                                               rows |-> IF df.rows = << >> THEN << >>
                                                        ELSE SelectSeq(df.rows, keep)]
                                         ELSE a.stored
                                 /\ last' = [op |-> "filter", status |-> "returned",
                                             error |-> "", before |-> df_dicom,
                                             scanned |-> a.scanned,
                                             func |-> f]
    /\ attempts' = << >>
    /\ UNCHANGED <<directory, tags, group_by, self_num_workers>>
    /\ UNCHANGED <<ptvars, clivars>>

\* Lines 121-159: anonymize_dicom(output_directory, clear_tags, num_workers).
AnonymizeDicom(out, clear, workers) ==
    /\ Open
    /\ scans < MaxScans
    /\ IF ~OutputAccepted(out, SelfDirectory)
         THEN /\ last' = [op |-> "anonymize_dicom", status |-> "raised",
                          error |-> "AssertionError", before |-> df_dicom,
                          scanned |-> 0, out |-> out, clear |-> clear, workers |-> workers,
                          result |-> << >>]
              /\ attempts' = << >>
              /\ UNCHANGED <<df_dicom, scans>>
         ELSE \E a \in {DfDicom(df_dicom, directory, tags, group_by, self_num_workers)} :
              \E r \in {IF a.status = "ok"
                           THEN AnonymizeCatalog(directory, a.stored,
                                     EffectiveClearTags(clear), out, workers)
                           ELSE [status |-> "raised", error |-> a.error,
                                 result |-> << >>, attempts |-> << >>]} :
                  /\ df_dicom' = a.stored
                  /\ scans' = scans + a.scanned
                  /\ IF a.status # "ok"
                       THEN /\ attempts' = << >>
                            /\ last' = [op |-> "anonymize_dicom", status |-> "raised",
                                        error |-> a.error, before |-> df_dicom,
                                        scanned |-> a.scanned,
                                        out |-> out, clear |-> clear,
                                        workers |-> workers, result |-> << >>]
                       ELSE /\ attempts' = r.attempts
                            /\ last' = [op |-> "anonymize_dicom", status |-> r.status,
                                        error |-> r.error, before |-> df_dicom,
                                        scanned |-> a.scanned,
                                        out |-> out, clear |-> clear,
                                        workers |-> workers, result |-> r.result]
    /\ UNCHANGED <<directory, tags, group_by, self_num_workers>>
    /\ UNCHANGED <<ptvars, clivars>>

NextManager ==
    \/ GetDfDicom
    \/ \E f \in FilterFuncs \cup {NotCallable}, inplace \in BOOLEAN :
          Filter(f, inplace)
    \/ \E out \in OutputLocations, clear \in ClearTagChoices,
          workers \in WorkerSettings : AnonymizeDicom(out, clear, workers)

SpecManager == InitManager /\ [][NextManager]_vars

TypeOKManager ==
    /\ df_dicom.kind \in {"unset", "flat", "grouped"}
    /\ scans \in 0 .. MaxScans
    /\ Len(df_dicom.rows) <= MaxFiles

\* The metadata table a build of this manager makes, before any grouping.
BuiltTable ==
    LET got == GetDicomInfoParallel(directory, tags, self_num_workers)
        df  == DataFrame(got.list)
    IN  [ok |-> got.status = "ok" /\ df.status = "ok", columns |-> df.columns]

\* The latest operation walked the directory to build the catalog.
Built == last.op # "init" /\ last.scanned = 1

\* The catalog the latest operation started from: the stored one, or the one
\* it built on its way when none was stored.
CatalogUsed ==
    IF NeedsBuild(last.before)
      THEN GetDicomInfo(directory, tags, group_by, self_num_workers).catalog
      ELSE last.before

(***************************************************************************)
(* C11 (as claimed): the catalog a manager builds has exactly one row per  *)
(* file that could be read, one error row per file whose read failed       *)
(* otherwise, and no row for a file that is not DICOM, whatever the        *)
(* num_workers setting, None included.  Stated for a manager without       *)
(* group_by, a directory with at least one candidate file and a worker     *)
(* count that is None or not negative.                                     *)
(***************************************************************************)
C11_OneRowPerReadableFile ==
    ( /\ Built
      /\ last.op = "df_dicom"
      /\ ~group_by.given
      /\ GetDicomFilePaths(directory) # << >>
      /\ (self_num_workers.none \/ self_num_workers.n >= 0) )
    =>
    ( /\ last.status = "returned"
      /\ df_dicom.kind = "flat"
      /\ "0" \notin df_dicom.columns
      /\ Len(df_dicom.rows) =
            Cardinality({i \in 1 .. Len(directory) :
                            directory[i] \in {"US", "CT", "err"}}) )

(***************************************************************************)
(* C12: when group_by names a column that the built table does not have,   *)
(* the build ends in the group_by ValueError, nothing is stored (neither a *)
(* grouped nor a flat catalog), and this is so for every operation that    *)
(* triggers the build.                                                     *)
(***************************************************************************)
C12_MissingGroupByRejected ==
    ( /\ group_by.given
      /\ BuiltTable.ok
      /\ \E i \in 1 .. Len(group_by.cols) :
            group_by.cols[i] \notin BuiltTable.columns )
    =>
    ( /\ df_dicom = Unset
      /\ Built => (last.status = "raised" /\ last.error = "ValueError(group_by)") )

\* A read of df_dicom rejected for the second of two group_by columns, the
\* first being a column of the table built from a readable file.
C12_Witness ==
    /\ last.op = "df_dicom"
    /\ last.error = "ValueError(group_by)"
    /\ group_by.cols = <<"PatientName", "Missing">>
    /\ "PatientName" \in BuiltTable.columns
    /\ df_dicom = Unset

(***************************************************************************)
(* C13: when anonymize_dicom has worked on files and the work on one of    *)
(* them failed, the call still returns (nothing is raised) and every file  *)
(* of the catalog was worked on, in catalog order, in the sequential loop  *)
(* and through parallel_tasks alike.                                       *)
(***************************************************************************)
C13_FailureDoesNotAbort ==
    ( /\ last.op = "anonymize_dicom"
      /\ \E k \in 1 .. Len(attempts) : ~attempts[k].saved )
    =>
    ( /\ last.status = "returned"
      /\ Len(attempts) = Len(df_dicom.rows)
      /\ \A k \in 1 .. Len(attempts) :
            attempts[k].src = df_dicom.rows[k]["filename"] )

\* A sequential run in which the first file failed and the second was
\* still read, cleared and saved.
C13_Witness ==
    /\ last.op = "anonymize_dicom"
    /\ last.workers.none
    /\ last.status = "returned"
    /\ Len(attempts) = 2
    /\ ~attempts[1].saved
    /\ attempts[2].saved

(***************************************************************************)
(* C14 (as claimed): when the output location is a directory, every file   *)
(* that is anonymized is written to a path under it, never to the          *)
(* directory path itself, and two different input files never get the      *)
(* same output path.                                                       *)
(***************************************************************************)
C14_WritesUnderOutputDirectory ==
    (last.op = "anonymize_dicom" /\ IsDirectory(last.out)) =>
       /\ \A k \in 1 .. Len(attempts) :
             attempts[k].read =>
                (attempts[k].target # last.out /\ attempts[k].saved)
       /\ \A j, k \in 1 .. Len(attempts) :
             (attempts[j].read /\ attempts[k].read /\ j # k) =>
                attempts[j].target # attempts[k].target

(***************************************************************************)
(* C15: for every file anonymize_dicom could read, the data set it saves   *)
(* has exactly the fields of the file; the named fields among them are     *)
(* empty and all others keep their value; a named field the file lacks is  *)
(* not added, and whether the file is saved depends on the output location *)
(* only, not on the named fields.                                          *)
(***************************************************************************)
C15_ClearsOnlyNamedPresentFields ==
    (last.op = "anonymize_dicom") =>
       \A k \in 1 .. Len(attempts) :
          attempts[k].read =>
             LET rec   == FileRecord(FileAt(directory, attempts[k].src))
                 named == ToSet(EffectiveClearTags(last.clear))
             IN  /\ DOMAIN attempts[k].data = DOMAIN rec
                 /\ \A c \in DOMAIN rec :
                       attempts[k].data[c] = IF c \in named THEN "" ELSE rec[c]
                 /\ attempts[k].saved <=> ~IsDirectory(attempts[k].target)

\* A file without PatientAge, anonymized with clear_tags naming PatientName
\* and PatientAge: saved with PatientName empty and no PatientAge.
C15_Witness ==
    /\ last.op = "anonymize_dicom"
    /\ last.clear = <<"PatientName", "PatientAge">>
    /\ \E k \in 1 .. Len(attempts) :
          /\ attempts[k].saved
          /\ attempts[k].data["PatientName"] = ""
          /\ attempts[k].data["Modality"] = "US"
          /\ "PatientAge" \notin DOMAIN attempts[k].data

(***************************************************************************)
(* C17: after a filter call that returns, the stored catalog holds exactly *)
(* the rows of the catalog it started from for which the function is true, *)
(* in the same order (so never more rows), and it is grouped exactly when  *)
(* the manager was given a group_by.                                       *)
(***************************************************************************)
C17_FilterKeepsMatchingRows ==
    (last.op = "filter" /\ last.status = "returned") =>
       LET keep(row) == Apply(last.func, row)
       IN  /\ df_dicom.rows = IF CatalogUsed.rows = << >> THEN << >>
                              ELSE SelectSeq(CatalogUsed.rows, keep)
           /\ Len(df_dicom.rows) <= Len(CatalogUsed.rows)
           /\ df_dicom.kind = IF group_by.given THEN "grouped" ELSE "flat"

\* A grouped catalog of two files from which a second filter call removed a
\* row, the result being grouped again.
C17_Witness ==
    /\ last.op = "filter"
    /\ last.status = "returned"
    /\ last.before.kind = "grouped"
    /\ Len(last.before.rows) = 2
    /\ Len(df_dicom.rows) = 1
    /\ df_dicom.kind = "grouped"

(***************************************************************************)
(* C18: the constructor stores its arguments (the default tags when none   *)
(* are given) and walks nothing; once a catalog is stored no operation     *)
(* walks the directory again or unsets the catalog, so a manager with a    *)
(* stored catalog has walked its directory exactly once.                   *)
(***************************************************************************)
C18_BuiltOnceOnFirstAccess ==
    [][ /\ (last.op = "init") =>
              /\ scans = 0
              /\ df_dicom = Unset
              /\ tags # << >>
              /\ (tags = DEFAULT_DICOM_TAGS \/ tags \in TagChoices)
        /\ (df_dicom.kind # "unset") =>
              (scans' = scans /\ df_dicom'.kind # "unset")
        /\ (df_dicom.kind = "unset" /\ df_dicom'.kind # "unset") =>
              scans' = scans + 1
        /\ (df_dicom'.kind # "unset") => (scans' = 1) ]_vars

\* A filter call on a catalog that was already stored, with still one walk.
C18_Witness ==
    /\ last.op = "filter"
    /\ last.status = "returned"
    /\ last.before.kind # "unset"
    /\ last.scanned = 0
    /\ scans = 1

(***************************************************************************)
(* C19 (as claimed): anonymize_dicom returns the output paths of the files *)
(* it anonymized, N-K entries none of which is absent, and a call with     *)
(* num_workers set ends as the call with num_workers=None on the same      *)
(* catalog does, with the same list.  Stated for positive worker counts.   *)
(***************************************************************************)
C19_SameListInBothModes ==
    ( /\ last.op = "anonymize_dicom"
      /\ ~last.workers.none
      /\ last.workers.n >= 1
      /\ OutputAccepted(last.out, SelfDirectory)
      /\ df_dicom.kind # "unset" )
    =>
    LET seq == AnonymizeCatalog(directory, df_dicom,
                                EffectiveClearTags(last.clear), last.out,
                                [none |-> TRUE, n |-> 0])
    IN  /\ last.status = seq.status
        /\ last.result = seq.result
        /\ last.status = "returned" =>
              /\ Len(last.result) =
                    Cardinality({k \in 1 .. Len(attempts) : attempts[k].saved})
              /\ \A k \in 1 .. Len(last.result) : last.result[k] # None

(***************************************************************************)
(* C20: anonymize_dicom called with an output directory that does not      *)
(* exist, or that is the manager's own directory, ends in an               *)
(* AssertionError without walking the directory, touching a file or        *)
(* changing the stored catalog.                                            *)
(***************************************************************************)
C20_OutputDirectoryAsserted ==
    ( /\ last.op = "anonymize_dicom"
      /\ (~PathExists(last.out) \/ last.out = SelfDirectory) )
    =>
    ( /\ last.status = "raised"
      /\ last.error = "AssertionError"
      /\ last.scanned = 0
      /\ attempts = << >>
      /\ df_dicom = last.before )

\* A call naming the manager's own directory, refused before the catalog
\* was ever built.
C20_Witness ==
    /\ last.op = "anonymize_dicom"
    /\ last.out = SelfDirectory
    /\ last.error = "AssertionError"
    /\ Len(directory) >= 1
    /\ df_dicom = Unset
    /\ scans = 0

\* ======================================================================
\* The command line program: apps/cli_app/main.py
\* ======================================================================

MaxCliWorkers == 2

\* The parsed arguments, each path reduced to what it names on disk when
\* main starts.
CliArguments ==
    [input_exists : BOOLEAN,
     output_state : {"absent", "empty", "nonempty"},
     drop_tags_exists : BOOLEAN,
     identifier_list_csv : {"None", "missing", "present"},
     num_workers : (0 - MaxNegativeWorkers) .. MaxCliWorkers]

\* def setup_logging() declares no parameter: a call binds only when it
\* passes no argument.
SetupLoggingAccepts(passed) == passed = {}

\* The keyword parameters of DicomManager.anonymize_dicom after
\* output_directory.
AnonymizeDicomKeywords == {"clear_tags", "num_workers"}

\* How main ended: where, by what, the output path on disk, and whether
\* batch work had begun.
Ended(at, cause, disk, batch) ==
    [at |-> at, cause |-> cause, output_path |-> disk, batch |-> batch]

\* The mutated exit status: every end of the process reports success.
ExitStatusZero(cause) == 0

\* Exit status of the interpreter: sys.exit(1) and an uncaught exception
\* both give 1, a return from main gives 0.
ExitStatus(cause) == IF cause = "returned" THEN 0 ELSE 1

\* os.makedirs(output_path, exist_ok=True) on the branch where the path
\* does not exist.
AfterOutputCheck(state) == IF state = "absent" THEN "empty" ELSE state

\* The statements of main in order; the first one that exits or raises
\* ends the process.
MainRun(a) ==
    IF ~SetupLoggingAccepts({"log_dir"})
    THEN Ended("setup_logging", "TypeError", a.output_state, FALSE)
    ELSE IF ~a.input_exists
    THEN Ended("check_input", "sys.exit", a.output_state, FALSE)
    ELSE IF a.output_state = "nonempty"
    THEN Ended("check_output", "sys.exit", a.output_state, FALSE)
    ELSE IF ~a.drop_tags_exists
    THEN Ended("check_drop_tags", "sys.exit",
               AfterOutputCheck(a.output_state), FALSE)
    ELSE IF a.identifier_list_csv = "None"
    THEN Ended("check_identifier", "TypeError",
               AfterOutputCheck(a.output_state), FALSE)
    ELSE IF a.identifier_list_csv = "missing"
    THEN Ended("check_identifier", "sys.exit",
               AfterOutputCheck(a.output_state), FALSE)
    ELSE IF a.num_workers < 1
    THEN Ended("check_workers", "sys.exit",
               AfterOutputCheck(a.output_state), FALSE)
    ELSE IF ~({"clear_tags", "num_workers", "identifiers"}
                 \subseteq AnonymizeDicomKeywords)
    THEN Ended("anonymize_dicom", "TypeError",
               AfterOutputCheck(a.output_state), FALSE)
    ELSE Ended("returned", "returned",
               AfterOutputCheck(a.output_state), TRUE)

InitCli ==
    /\ NoBatch
    /\ NoManager
    /\ cli_args \in CliArguments
    /\ output_path = cli_args.output_state
    /\ cli_pc = "start"
    /\ exit_code = 0
    /\ exited_at = "none"
    /\ exit_cause = "none"
    /\ batch_started = FALSE

\* One run of main, from the parsed arguments to the end of the process.
Main ==
    /\ cli_pc = "start"
    /\ \E r \in {MainRun(cli_args)} :
          /\ exited_at' = r.at
          /\ exit_cause' = r.cause
          /\ exit_code' = ExitStatus(r.cause)
          /\ output_path' = r.output_path
          /\ batch_started' = r.batch
    /\ cli_pc' = "exited"
    /\ UNCHANGED <<cli_args, ptvars, mgrvars>>

NextCli == Main

SpecCli == InitCli /\ [][NextCli]_vars

TypeOKCli ==
    /\ cli_args \in CliArguments
    /\ output_path \in {"absent", "empty", "nonempty"}
    /\ cli_pc \in {"start", "exited"}
    /\ exit_code \in 0 .. 1
    /\ batch_started \in BOOLEAN

\* The configuration errors of the command line: a missing input
\* directory, an output directory that exists and is not empty, a missing
\* drop-tags file, an identifier file that is named and missing, a worker
\* count that is not positive.
ConfigurationError(a) ==
    \/ ~a.input_exists
    \/ a.output_state = "nonempty"
    \/ ~a.drop_tags_exists
    \/ a.identifier_list_csv = "missing"
    \/ a.num_workers < 1

\* C16: whenever at least one configuration error holds (input directory
\* missing, drop-tags file missing, identifier file named and missing,
\* worker count not positive, output directory existing and not empty),
\* main ends with a nonzero exit status and no batch work (catalog read
\* or anonymization) has begun.
C16_ConfigurationErrorExitsNonzero ==
    (cli_pc = "exited" /\ ConfigurationError(cli_args))
    => (exit_code # 0 /\ ~batch_started)

\* A run on a missing input directory with a worker count of zero has
\* ended with a nonzero status.
C16_Witness ==
    /\ cli_pc = "exited"
    /\ ~cli_args.input_exists
    /\ cli_args.num_workers < 1
    /\ cli_args.output_state = "nonempty"
    /\ exit_code # 0
    /\ ~batch_started

(***************************************************************************)
(* C21 (as claimed): the identifier file is optional.  A run that names no *)
(* identifier file and passes every other check (input directory exists,   *)
(* output directory absent or empty, drop-tags file exists, worker count   *)
(* at least 1) does not end during validation or identifier loading: it    *)
(* ends no earlier than at the call of the anonymization.                  *)
(***************************************************************************)
C21_IdentifierFileOptional ==
    ( /\ cli_pc = "exited"
      /\ cli_args.identifier_list_csv = "None"
      /\ cli_args.input_exists
      /\ cli_args.output_state # "nonempty"
      /\ cli_args.drop_tags_exists
      /\ cli_args.num_workers >= 1 )
    => exited_at \in {"anonymize_dicom", "returned"}

\* The checks of main that follow the output directory check: the
\* drop-tags file, the identifier file, the worker count.
LaterChecks == {"check_drop_tags", "check_identifier", "check_workers"}

\* The arguments of a run the later checks reject: the input directory
\* exists, the output directory is absent or empty, and the drop-tags file
\* is missing, or the named identifier file is missing, or the worker
\* count is not positive.
RejectedByLaterCheck(a) ==
    /\ a.input_exists
    /\ a.output_state # "nonempty"
    /\ \/ ~a.drop_tags_exists
       \/ a.identifier_list_csv = "missing"
       \/ a.num_workers < 1

C23_FilterLeavesStoredCatalog ==
    [][ ( /\ last.op = "filter"
          /\ last.status = "returned"
          /\ last'.op = "df_dicom" )
        => df_dicom' = CatalogUsed ]_vars

(***************************************************************************)
(* C23 (amended): a filter call stores the table it returns for every      *)
(* value of inplace: an access to df_dicom right after a filter call that  *)
(* returned walks nothing and yields the filtered catalog, that is the     *)
(* rows of the catalog the call started from for which the function is     *)
(* true.                                                                   *)
(***************************************************************************)
C23_FilterStoresForEveryInplace ==
    [][ ( /\ last.op = "filter"
          /\ last.status = "returned"
          /\ last'.op = "df_dicom" )
        => LET keep(row) == Apply(last.func, row)
           IN  /\ last'.status = "returned"
               /\ last'.scanned = 0
               /\ df_dicom' = df_dicom
               /\ df_dicom'.rows = IF CatalogUsed.rows = << >> THEN << >>
                                   ELSE SelectSeq(CatalogUsed.rows, keep) ]_vars

\* An access to df_dicom that walked nothing and returned one row, in a
\* manager over two readable files: a filter call had removed the other.
C23_Witness ==
    /\ last.op = "df_dicom"
    /\ last.status = "returned"
    /\ last.scanned = 0
    /\ directory \in {<<"US", "CT">>, <<"CT", "US">>}
    /\ Len(df_dicom.rows) = 1
    /\ last.before = df_dicom

====
